---- MODULE Spec2Model ----
(***************************************************************************)
(* FusionEngine file index (analysis/file_index.py): FileIndex,            *)
(* FileIndexBuilder, the raw .p1i record codec and the index/data          *)
(* consistency validation done by FileIndex.load().                        *)
(*                                                                         *)
(* Times are counted in half seconds, so that 10.0 s is 20 and 10.5 s is   *)
(* 21; NaN is a value of its own and every comparison with it is false,    *)
(* as in IEEE arithmetic.  Positions are 0-based, as in NumPy.             *)
(***************************************************************************)
EXTENDS Integers, Sequences, FiniteSets, TLC

VARIABLES
    raw_data,   \* FileIndexBuilder.raw_data: the list of appended tuples
    index,      \* the FileIndex instance under study: _data, t0, how it was built
    result,     \* outcome of the last query on index
    indexFile,  \* the .p1i file at index_path: whether it exists, its raw records
    dataFile,   \* the .p1log file at data_path: whether it exists, its content
    written,    \* history: the save() that produced the present indexFile
    last        \* history: the last call, its arguments and its outcome

vars == <<raw_data, index, result, indexFile, dataFile, written, last>>

-----------------------------------------------------------------------------
(* Values *)

\* np.nan, the time of an entry without P1 time
NaN == -1

\* Python's None, for an omitted start / stop / t0
None == -2

\* MessageType.INVALID, the type of the EOF marker
INVALID == 0

\* MessageHeader.calcsize(), the fixed size of a message header in bytes
HeaderSize == 24

\* Width of the raw record's 'int' field.  The field is '<u4'; it is modelled
\* TimeBits wide and Timestamp._INVALID stays its all-ones value.
TimeBits == 5

Timestamp_INVALID == 2^TimeBits - 1

\* Longest entry list of the save / load model
MaxLen == 2

\* Longest entry list of the query model
MaxQLen == 3

FileIndexEntry(t, ty, o) == [time |-> t, type |-> ty, offset |-> o]

\* All sequences over S of length at most n
RECURSIVE SeqUpTo(_, _)
SeqUpTo(S, n) ==
    IF n = 0 THEN {<<>>}
    ELSE LET shorter == SeqUpTo(S, n - 1)
         IN shorter \cup {Append(s, e) : s \in {x \in shorter : Len(x) = n - 1}, e \in S}

-----------------------------------------------------------------------------
(* NumPy primitives *)

isnan(t) == t = NaN

\* IEEE a >= b: false when either side is NaN
Geq(a, b) == ~isnan(a) /\ ~isnan(b) /\ a >= b

\* np.floor on a time in half seconds
floor(t) == IF isnan(t) THEN NaN ELSE (t \div 2) * 2

\* np.argmax of a boolean vector: the position of the first True, and 0 when
\* no element is True
argmax(b) ==
    IF \E i \in 1..Len(b) : b[i]
    THEN (CHOOSE i \in 1..Len(b) : b[i] /\ \A j \in 1..(i - 1) : ~b[j]) - 1
    ELSE 0

Slice_valid_times(data, a, b) == SelectSeq(SubSeq(data, a + 1, b), LAMBDA e : ~isnan(e.time))

\* data[a:b] for 0 <= a, b <= len(data)
Slice(data, a, b) == SubSeq(data, a + 1, b)

Compress_all(data, mask) == data

\* data[mask] for a boolean mask of the same length
RECURSIVE Compress(_, _)
Compress(data, mask) ==
    IF Len(data) = 0 THEN <<>>
    ELSE LET rest == Compress(Tail(data), Tail(mask))
         IN IF Head(mask) THEN <<Head(data)>> \o rest ELSE rest

-----------------------------------------------------------------------------
(* FileIndex.__init__ with data= *)

\* the t0 the constructor derives when none is given
DeriveT0(data) ==
    IF Len(data) = 0 THEN None
    ELSE LET idx == argmax([i \in 1..Len(data) |-> ~isnan(data[i].time)])
         IN IF idx >= 0 THEN data[idx + 1].time ELSE None

FileIndex(data, t0) ==
    [data |-> data, t0 |-> IF t0 # None THEN t0 ELSE DeriveT0(data)]

\* A returned FileIndex whose _data is an array of its own: the constructor
\* was given a list, or the result of boolean-mask or integer-array indexing,
\* which NumPy copies.
Ok(fi) == [status |-> "ok", returns |-> "FileIndex", data |-> fi.data, t0 |-> fi.t0, base |-> "own"]

\* A returned FileIndex whose _data is self._data or a basic slice of it: the
\* constructor keeps an ndarray of _DTYPE as it is, and a basic slice is a view
\* on the memory of the array it was taken from.
OkView(fi) == [Ok(fi) EXCEPT !.base = "self"]

Raise(exc) == [status |-> exc, returns |-> "none", data |-> <<>>, t0 |-> None, base |-> "none"]

NoResult == [status |-> "none", returns |-> "none", data |-> <<>>, t0 |-> None, base |-> "none"]

-----------------------------------------------------------------------------
(* FileIndex.get_time_range *)

no_data_never(self) == FALSE

\* len(self._data) == 0
no_data(self) == Len(self.data) = 0

control_hint_ignored(data, in_range) == Ok(FileIndex(Compress(data, in_range), None))

\* raise ValueError('Unrecognized control hint.')
control_hint_error(data, in_range) == Raise("ValueError")

get_time_range(self, start, stop, hint0) ==
    LET hint == IF hint0 = "None" THEN "include_nans" ELSE hint0
        data == self.data
        n    == Len(data)
    IN IF no_data(self) THEN OkView(FileIndex(data, self.t0))
       \* np.argmax of an empty vector raises ValueError
       ELSE IF n = 0 /\ (start # None \/ stop # None) THEN Raise("ValueError")
       ELSE LET start_idx == IF start # None
                             THEN argmax([i \in 1..n |-> Geq(data[i].time, floor(start))])
                             ELSE 0
                end_idx   == IF stop # None
                             THEN argmax([i \in 1..n |-> Geq(data[i].time, stop)])
                             ELSE n
                in_range  == [i \in 1..n |-> start_idx < i /\ i <= end_idx]
                nan_idx   == [i \in 1..n |-> isnan(data[i].time)]
            IN IF hint = "include_nans"
               THEN OkView(FileIndex(Slice(data, start_idx, end_idx), self.t0))
               ELSE IF hint = "all_nans"
               THEN Ok(FileIndex(Compress(data, [i \in 1..n |-> in_range[i] \/ nan_idx[i]]), self.t0))
               ELSE IF hint = "remove_nans"
               THEN Ok(FileIndex(Compress(data, [i \in 1..n |-> in_range[i] /\ ~nan_idx[i]]), self.t0))
               ELSE control_hint_error(data, in_range)

-----------------------------------------------------------------------------
(* FileIndex.__getitem__, __getattr__, __iter__ *)

Max(a, b) == IF a >= b THEN a ELSE b

Min(a, b) == IF a <= b THEN a ELSE b

\* An optional integer of a positional slice: <<>> is None, <<k>> is k
Omitted == <<>>

Given(k) == <<k>>

\* slice(lo, hi, stride).indices(n): the step, and the clamped first and
\* limiting positions; a negative bound counts from the end
SliceStep(stride) == IF Len(stride) = 0 THEN 1 ELSE stride[1]

SliceBound(n, bound, step, omitted) ==
    LET lower == IF step > 0 THEN 0 ELSE -1
        upper == IF step > 0 THEN n ELSE n - 1
    IN IF Len(bound) = 0 THEN omitted
       ELSE IF bound[1] < 0 THEN Max(bound[1] + n, lower)
       ELSE Min(bound[1], upper)

SliceStart(n, lo, step) == SliceBound(n, lo, step, IF step > 0 THEN 0 ELSE n - 1)

SliceStop_inclusive(n, hi, step) == Min(SliceBound(n, hi, step, n) + 1, n)

SliceStop(n, hi, step) == SliceBound(n, hi, step, IF step > 0 THEN n ELSE -1)

\* the positions i, i + step, ... before stop
RECURSIVE Range(_, _, _)
Range(i, stop, step) ==
    IF (step > 0 /\ i < stop) \/ (step < 0 /\ i > stop)
    THEN <<i>> \o Range(i + step, stop, step)
    ELSE <<>>

\* the 0-based positions data[lo:hi:stride] selects, in the order it visits them
SlicePositions(n, lo, hi, stride) ==
    LET step == SliceStep(stride)
    IN Range(SliceStart(n, lo, step), SliceStop(n, hi, step), step)

Take_reversed(data, positions) ==
    [i \in 1..Len(positions) |-> data[positions[Len(positions) + 1 - i] + 1]]

\* the entries of data at the given 0-based positions, in the given order
Take(data, positions) == [i \in 1..Len(positions) |-> data[positions[i] + 1]]

\* data[np.array(positions)]: a negative position counts from the end
Wrap(n, p) == IF p < 0 THEN p + n ELSE p

\* offset + Timestamp in IEEE arithmetic
Plus(a, b) == IF isnan(a) \/ isnan(b) THEN NaN ELSE a + b

\* getattr(self, name): a column of self._data
getattr(self, name) ==
    IF name \in {"time", "type", "offset"}
    THEN [status |-> "ok", returns |-> "ndarray",
          data |-> [i \in 1..Len(self.data) |->
                       IF name = "time" THEN self.data[i].time
                       ELSE IF name = "type" THEN self.data[i].type
                       ELSE self.data[i].offset],
          t0 |-> None, base |-> "self"]
    ELSE Raise("AttributeError")

\* the key of a call without one
NoKey ==
    [kind |-> "init", name |-> "", type |-> INVALID, types |-> <<>>, position |-> 0,
     start |-> None, stop |-> None, step |-> "None", step_is_str |-> FALSE,
     absolute |-> FALSE, p1_t0 |-> None,
     lo |-> Omitted, hi |-> Omitted, stride |-> Omitted, positions |-> <<>>]

type_mask_first(self, types) == [i \in 1..Len(self.data) |-> self.data[i].type = types[1]]

\* self._data['type'] == key, np.isin(self._data['type'], [int(k) for k in key])
type_mask(self, types) ==
    [i \in 1..Len(self.data) |-> \E j \in 1..Len(types) : self.data[i].type = types[j]]

resolve_own_t0(self, key) == self.t0

\* key.p1_t0 if key.p1_t0 is not None else self.t0
resolve_p1_t0(self, key) == IF key.p1_t0 # None THEN key.p1_t0 ELSE self.t0

getitem(self, key) ==
    LET data == self.data
        n    == Len(data)
    IN IF key.kind = "None"
       THEN OkView(self)
       ELSE IF no_data(self)
       THEN Ok(FileIndex(<<>>, None))
       ELSE IF key.kind = "str"
       THEN getattr(self, key.name)
       ELSE IF key.kind \in {"MessageType", "MessagePayload"}
       THEN Ok(FileIndex(Compress(data, type_mask(self, <<key.type>>)), self.t0))
       ELSE IF key.kind \in {"MessageTypes", "MessagePayloads"} /\ Len(key.types) > 0
       THEN Ok(FileIndex(Compress(data, type_mask(self, key.types)), self.t0))
       ELSE IF key.kind = "int"
       THEN OkView(FileIndex(
                Take(data, SlicePositions(n, Given(key.position), Given(key.position + 1), Omitted)),
                self.t0))
       ELSE IF key.kind = "time_slice"
       THEN IF key.step # "None" /\ ~key.step_is_str
            THEN Raise("ValueError")
            ELSE get_time_range(self, key.start, key.stop, key.step)
       ELSE IF key.kind = "TimeRange"
       THEN IF key.absolute
            THEN get_time_range(self, key.start, key.stop, "include_nans")
            ELSE LET p1_t0 == resolve_p1_t0(self, key)
                 IN IF p1_t0 = None /\ (key.start # None \/ key.stop # None)
                    THEN Raise("TypeError")
                    ELSE get_time_range(self,
                             IF key.start # None THEN Plus(key.start, p1_t0) ELSE None,
                             IF key.stop # None THEN Plus(key.stop, p1_t0) ELSE None,
                             "include_nans")
       ELSE IF key.kind = "slice"
       THEN IF SliceStep(key.stride) = 0
            THEN Raise("ValueError")
            ELSE OkView(FileIndex(Take(data, SlicePositions(n, key.lo, key.hi, key.stride)), self.t0))
       ELSE IF key.kind \in {"list", "MessageTypes", "MessagePayloads"}
       THEN IF Len(key.positions) > 0
            THEN IF \E i \in 1..Len(key.positions) : key.positions[i] \notin (-n)..(n - 1)
                 THEN Raise("IndexError")
                 ELSE Ok(FileIndex(
                          Take(data, [i \in 1..Len(key.positions) |-> Wrap(n, key.positions[i])]),
                          self.t0))
            ELSE Ok(FileIndex(<<>>, self.t0))
       ELSE Raise("ValueError")

\* iter(self): the entries the iterator yields, in order
iter(self) ==
    [status |-> "ok", returns |-> "iterator", data |-> self.data, t0 |-> None, base |-> "self"]

self_after_filter_in_place(self, r) ==
    IF r.status = "ok" /\ r.returns = "FileIndex" THEN [self EXCEPT !.data = r.data] ELSE self

\* self after a query returned r: no query assigns self._data or self.t0, and
\* none writes into the array
self_after(self, r) == self

-----------------------------------------------------------------------------
(* Raw record codec *)

to_raw_narrow_offset(data) ==
    [i \in 1..Len(data) |->
        [int    |-> IF isnan(data[i].time) THEN Timestamp_INVALID
                    ELSE (data[i].time \div 2) % (2^TimeBits),
         type   |-> data[i].type,
         offset |-> data[i].offset % (2^TimeBits)]]

to_raw_rounded(data) ==
    [i \in 1..Len(data) |->
        [int    |-> IF isnan(data[i].time) THEN Timestamp_INVALID
                    ELSE ((data[i].time + 1) \div 2) % (2^TimeBits),
         type   |-> data[i].type,
         offset |-> data[i].offset]]

\* FileIndex._to_raw: astype('<u4') truncates the time, NaN becomes the sentinel
to_raw(data) ==
    [i \in 1..Len(data) |->
        [int    |-> IF isnan(data[i].time) THEN Timestamp_INVALID
                    ELSE (data[i].time \div 2) % (2^TimeBits),
         type   |-> data[i].type,
         offset |-> data[i].offset]]

\* FileIndex._from_raw: the sentinel becomes NaN, any other value float(int)
from_raw(raw) ==
    [i \in 1..Len(raw) |->
        [time   |-> IF raw[i].int = Timestamp_INVALID THEN NaN ELSE 2 * raw[i].int,
         type   |-> raw[i].type,
         offset |-> raw[i].offset]]

-----------------------------------------------------------------------------
(* Files *)

\* A data file: its size in bytes and the payload length its message headers
\* carry (every frame of a modelled file has the same payload length).
DataFile(size, payload) == [exists |-> TRUE, size |-> size, payload |-> payload]

NoDataFile == [exists |-> FALSE, size |-> 0, payload |-> 0]

\* An index file: its raw records, in file order
IndexFile(records) == [exists |-> TRUE, records |-> records]

NoIndexFile == [exists |-> FALSE, records |-> <<>>]

\* header.unpack(buffer).payload_size_bytes for the header read at offset
payload_size_bytes(file, offset) == file.payload

-----------------------------------------------------------------------------
(* FileIndex.save *)

\* Outcome of self.save(index_path, data_path): the exception, if any, and the
\* index file afterwards.  dp is FALSE when data_path is None.
save(data, file, dfile, dp) ==
    IF Len(data) > 0
    THEN IF data[Len(data)].type # INVALID /\ dp
         THEN IF ~dfile.exists
              THEN [status |-> "FileNotFoundError", file |-> file]
              ELSE [status |-> "ok",
                    file   |-> IndexFile(to_raw(Append(data, FileIndexEntry(NaN, INVALID, dfile.size))))]
         ELSE [status |-> "ok", file |-> IndexFile(to_raw(data))]
    ELSE [status |-> "ok", file |-> file]

-----------------------------------------------------------------------------
(* FileIndex.load *)

LoadOutcome(status, err, data, removed, header_read) ==
    [status |-> status, err |-> err, data |-> data, removed |-> removed,
     header_read |-> header_read]

path_exists_always(file) == TRUE

\* os.path.exists(path)
path_exists(file) == file.exists

StripMarker_keep(data) == data

\* self._data = self._data[:-1]
StripMarker(data) == Slice(data, 0, Len(data) - 1)

remove_on_error_never(delete_on_error) == FALSE

remove_on_error_always(delete_on_error) == TRUE

\* if delete_on_error: os.remove(index_path)
remove_on_error(delete_on_error) == delete_on_error

past_end_no_header(last_offset, data_file_size) == last_offset > data_file_size

\* last_offset > data_file_size - MessageHeader.calcsize()
past_end(last_offset, data_file_size) == last_offset > data_file_size - HeaderSize

marker_matches_grown(data_file_size, expected_data_file_size) ==
    data_file_size >= expected_data_file_size

\* data_file_size == expected_data_file_size, for the size the marker carries
marker_matches(data_file_size, expected_data_file_size) ==
    data_file_size = expected_data_file_size

\* The checks made once the data file is open
validate(data, dfile, delete_on_error) ==
    LET n == Len(data)
        data_file_size == dfile.size
    IN IF data_file_size = 0 /\ n # 0
       THEN LoadOutcome("ValueError", "data_empty", data, remove_on_error(delete_on_error), FALSE)
       ELSE IF data_file_size # 0 /\ n = 0
       THEN LoadOutcome("ValueError", "index_empty", data, remove_on_error(delete_on_error), FALSE)
       ELSE IF n = 0
       THEN LoadOutcome("IndexError", "type[-1]", data, FALSE, FALSE)
       ELSE IF data[n].type = INVALID
       THEN IF marker_matches(data_file_size, data[n].offset)
            THEN LoadOutcome("ok", "", StripMarker(data), FALSE, FALSE)
            ELSE LoadOutcome("ValueError", "size_mismatch", StripMarker(data), FALSE, FALSE)
       ELSE LET last_offset == data[n].offset
            IN IF past_end(last_offset, data_file_size)
               THEN LoadOutcome("ValueError", "past_end", data, remove_on_error(delete_on_error), FALSE)
               ELSE LET message_size_bytes == HeaderSize + payload_size_bytes(dfile, last_offset)
                        expected_data_file_size == last_offset + message_size_bytes
                    IN IF expected_data_file_size # data_file_size
                       THEN LoadOutcome("ValueError", "size_mismatch", data,
                                        remove_on_error(delete_on_error), TRUE)
                       ELSE LoadOutcome("ok", "", data, FALSE, TRUE)

\* Outcome of self.load(index_path, data_path, delete_on_error) on an instance
\* whose _data is old: the exception, self._data afterwards, whether the index
\* file was removed and whether a header was read from the data file.
\* dp is FALSE when data_path is None; the inferred path then names dfile too.
load(old, file, dfile, dp, delete_on_error) ==
    IF ~path_exists(file)
    THEN LoadOutcome("FileNotFoundError", "index_not_found", old, FALSE, FALSE)
    ELSE LET data == from_raw(file.records)
             n    == Len(data)
         IN IF ~path_exists(dfile)
            THEN IF ~dp
                 THEN IF n = 0
                      THEN LoadOutcome("IndexError", "type[-1]", data, FALSE, FALSE)
                      ELSE IF data[n].type = INVALID
                      THEN LoadOutcome("ok", "", StripMarker(data), FALSE, FALSE)
                      ELSE LoadOutcome("ok", "", data, FALSE, FALSE)
                 ELSE LoadOutcome("ValueError", "data_not_found", data, FALSE, FALSE)
            ELSE validate(data, dfile, delete_on_error)

-----------------------------------------------------------------------------
(* Input sets *)

\* entries of the save / load model
Times == {NaN, 21}

Types == {INVALID, 5}

Offsets == {20, 40}

Entries == {FileIndexEntry(t, ty, o) : t \in Times, ty \in Types, o \in Offsets}

DataFiles == {DataFile(0, 0), DataFile(52, 8), DataFile(72, 8), DataFile(52, 28)}

\* entries of the query model: one message every 20 bytes
QTimes == {NaN, 2, 4, 6, 8}

QTypes == {5}

QBounds == {None, 3, 4, 6, 10}

Hints == {"None", "include_nans", "all_nans", "remove_nans"}

InFileOrder(pairs) ==
    [i \in 1..Len(pairs) |-> FileIndexEntry(pairs[i][1], pairs[i][2], 20 * (i - 1))]

QLists == {InFileOrder(s) : s \in SeqUpTo(QTimes \X QTypes, MaxQLen)}

\* entries of the indexing model: (time, type), one message every 20 bytes
ITypes == {5, 99}

IEntries == {<<NaN, 99>>, <<2, 5>>, <<4, 99>>}

ILists == {InFileOrder(s) : s \in SeqUpTo(IEntries, MaxQLen)}

Key(kind) == [NoKey EXCEPT !.kind = kind]

StrKeys == {[Key("str") EXCEPT !.name = nm] : nm \in {"time", "offset", "speed"}}

\* a message type or a payload class; no entry has type 7
TypeKeys ==
    {[Key(k) EXCEPT !.type = t] : k \in {"MessageType", "MessagePayload"}, t \in ITypes \cup {7}}

TypeSetKeys ==
    {[Key("MessageTypes") EXCEPT !.types = ts] : ts \in {<<5>>, <<99>>, <<7>>, <<5, 99>>, <<99, 5>>}}
    \cup {[Key("MessagePayloads") EXCEPT !.types = ts] : ts \in {<<99>>, <<7, 5>>}}

IntKeys == {[Key("int") EXCEPT !.position = k] : k \in (-(MaxQLen + 1))..(MaxQLen + 1)}

\* index[start:stop:step] with a float bound; the step is None, a hint, another
\* string or a number
Steps ==
    {<<"None", FALSE>>, <<"remove_nans", TRUE>>, <<"all_nans", TRUE>>, <<"every_nan", TRUE>>,
     <<"2", FALSE>>}

TimeSliceKeys ==
    {[Key("time_slice") EXCEPT !.start = ab[1], !.stop = ab[2],
                               !.step = st[1], !.step_is_str = st[2]] :
        ab \in {<<3, None>>, <<None, 4>>, <<3, 4>>}, st \in Steps}

\* TimeRange objects: absolute bounds, or offsets from a reference time
TimeRangeKeys ==
    {[Key("TimeRange") EXCEPT !.absolute = TRUE, !.start = a, !.stop = b] :
        a \in {None, 3}, b \in {None, 4}}
    \cup {[Key("TimeRange") EXCEPT !.start = a, !.stop = b, !.p1_t0 = t] :
        a \in {None, 0, 1}, b \in {None, 2}, t \in {None, 2}}

SliceKeys ==
    {[Key("slice") EXCEPT !.lo = a, !.hi = b, !.stride = c] :
        a \in {Omitted, Given(1), Given(-1)},
        b \in {Omitted, Given(2), Given(-1)},
        c \in {Omitted, Given(-1)}}
    \cup {[Key("slice") EXCEPT !.stride = Given(2)], [Key("slice") EXCEPT !.stride = Given(0)]}

ListKeys ==
    {[Key("list") EXCEPT !.positions = ps] :
        ps \in {<<>>, <<0>>, <<1, 0>>, <<0, 2>>, <<0, 0>>, <<-1, 0>>, <<MaxQLen + 1>>}}

\* a key of no supported type, such as index[{}]
OtherKeys == {Key("dict")}

Keys ==
    {Key("None")} \cup StrKeys \cup TypeKeys \cup TypeSetKeys \cup IntKeys \cup TimeSliceKeys
    \cup TimeRangeKeys \cup SliceKeys \cup ListKeys \cup OtherKeys

IHints == Hints \cup {"every_nan"}

\* the appends of the end-to-end scenario: (p1_time, message_type, offset_bytes)
Scenario == << <<20, 5, 0>>, <<21, 5, 20>>, <<None, 99, 40>> >>

ScenarioBounds == {None, 20, 21, 22, 24}

ScenarioFiles == {NoDataFile, DataFile(52, 8), DataFile(72, 8)}

-----------------------------------------------------------------------------
(* State *)

Instance(fi, origin) == [data |-> fi.data, t0 |-> fi.t0, origin |-> origin]

Call(op) ==
    [op |-> op, dp |-> FALSE, doe |-> FALSE, ctor |-> FALSE, status |-> "ok", err |-> "",
     file |-> NoIndexFile, removed |-> FALSE, header_read |-> FALSE,
     start |-> None, stop |-> None, hint |-> "None", key |-> NoKey,
     message_type |-> INVALID, offset_bytes |-> 0, p1_time |-> None]

NoSave == [valid |-> FALSE, data |-> <<>>, dp |-> FALSE, dfile |-> NoDataFile]

-----------------------------------------------------------------------------
(* FileIndexBuilder *)

produced_aliases_raw_data(produced, raw) == [produced EXCEPT !.data = raw]

\* a FileIndex produced before, once the builder's list has become raw:
\* np.array(list, dtype) copied the list when the FileIndex was made
produced_after_append(produced, raw) == produced

append(message_type, offset_bytes, p1_time) ==
    /\ Len(raw_data) < Len(Scenario)
    /\ LET time_sec == IF p1_time = None THEN NaN ELSE p1_time
       IN raw_data' = Append(raw_data, FileIndexEntry(time_sec, message_type, offset_bytes))
    /\ index' = produced_after_append(index, raw_data')
    /\ last' = [Call("append") EXCEPT !.message_type = message_type,
                                      !.offset_bytes = offset_bytes, !.p1_time = p1_time]
    /\ UNCHANGED <<result, indexFile, dataFile, written>>

to_index_reversed ==
    FileIndex([i \in 1..Len(raw_data) |-> raw_data[Len(raw_data) + 1 - i]], None)

to_index == FileIndex(raw_data, None)

\* len(builder)
builder_len == Len(raw_data)

\* index = builder.to_index()
ToIndex ==
    /\ index' = Instance(to_index, "data")
    /\ last' = Call("to_index")
    /\ UNCHANGED <<raw_data, result, indexFile, dataFile, written>>

BuilderSave(dp) ==
    LET built == to_index
        r     == save(built.data, indexFile, dataFile, dp)
    IN /\ index' = IF r.status = "ok" THEN Instance(built, "data") ELSE index
       /\ indexFile' = r.file
       /\ written' = IF r.status = "ok" /\ Len(built.data) > 0
                     THEN [valid |-> TRUE, data |-> built.data, dp |-> dp, dfile |-> dataFile]
                     ELSE written
       /\ last' = [Call("builder_save") EXCEPT !.dp = dp, !.status = r.status, !.file = indexFile]
       /\ UNCHANGED <<raw_data, result, dataFile>>

-----------------------------------------------------------------------------
(* FileIndex operations *)

\* self._data after save() wrote file: save() binds the array to a local
\* name and np.append returns a new array, so the EOF marker never reaches
\* self._data
self_after_save(data, file) == data

\* index.save(index_path, data_path)
Save(dp) ==
    LET r == save(index.data, indexFile, dataFile, dp)
    IN /\ indexFile' = r.file
       /\ index' = [index EXCEPT !.data = self_after_save(index.data, r.file)]
       /\ written' = IF r.status = "ok" /\ Len(index.data) > 0
                     THEN [valid |-> TRUE, data |-> index.data, dp |-> dp, dfile |-> dataFile]
                     ELSE written
       /\ last' = [Call("save") EXCEPT !.dp = dp, !.status = r.status, !.file = indexFile]
       /\ UNCHANGED <<raw_data, result, dataFile>>

AfterLoad(r) == IF r.removed THEN NoIndexFile ELSE indexFile

LoadCall(r, dp, delete_on_error, ctor) ==
    [Call("load") EXCEPT !.dp = dp, !.doe = delete_on_error, !.ctor = ctor,
                         !.status = r.status, !.err = r.err, !.file = indexFile,
                         !.removed = r.removed, !.header_read = r.header_read]

\* FileIndex(index_path, data_path, delete_on_error): the instance exists only
\* if load() returns; its t0 is then derived from the loaded entries
LoadNew(dp, delete_on_error) ==
    LET r == load(<<>>, indexFile, dataFile, dp, delete_on_error)
    IN /\ index' = IF r.status = "ok" THEN Instance(FileIndex(r.data, None), "load") ELSE index
       /\ indexFile' = AfterLoad(r)
       /\ last' = LoadCall(r, dp, delete_on_error, TRUE)
       /\ UNCHANGED <<raw_data, result, dataFile, written>>

\* index.load(index_path, data_path, delete_on_error) on the existing instance
Reload(dp, delete_on_error) ==
    LET r == load(index.data, indexFile, dataFile, dp, delete_on_error)
    IN /\ index' = [index EXCEPT !.data = r.data,
                                 !.origin = IF indexFile.exists THEN "load" ELSE @]
       /\ indexFile' = AfterLoad(r)
       /\ last' = LoadCall(r, dp, delete_on_error, FALSE)
       /\ UNCHANGED <<raw_data, result, dataFile, written>>

GetTimeRange(start, stop, hint) ==
    LET r == get_time_range(index, start, stop, hint)
    IN /\ result' = r
       /\ index' = self_after(index, r)
       /\ last' = [Call("get_time_range") EXCEPT !.start = start, !.stop = stop, !.hint = hint,
                                                 !.status = r.status]
       /\ UNCHANGED <<raw_data, indexFile, dataFile, written>>

\* index[key]
GetItem(key) ==
    LET r == getitem(index, key)
    IN /\ result' = r
       /\ index' = self_after(index, r)
       /\ last' = [Call("getitem") EXCEPT !.key = key, !.status = r.status]
       /\ UNCHANGED <<raw_data, indexFile, dataFile, written>>

\* for entry in index
Iterate ==
    LET r == iter(index)
    IN /\ result' = r
       /\ index' = self_after(index, r)
       /\ last' = Call("iter")
       /\ UNCHANGED <<raw_data, indexFile, dataFile, written>>

-----------------------------------------------------------------------------
(* Environment: other programs write the files *)

\* the data file is created, replaced, grown, truncated or deleted
SetData(d) ==
    /\ d # dataFile
    /\ dataFile' = d
    /\ last' = Call("set_data")
    /\ UNCHANGED <<raw_data, index, result, indexFile, written>>

\* an index file of zero records appears at index_path
TouchIndex ==
    /\ indexFile # IndexFile(<<>>)
    /\ indexFile' = IndexFile(<<>>)
    /\ written' = NoSave
    /\ last' = Call("touch_index")
    /\ UNCHANGED <<raw_data, index, result, dataFile>>

-----------------------------------------------------------------------------
(* Specifications *)

\* Save / load: an index built from an in-memory list, the two files
Init ==
    /\ raw_data = <<>>
    /\ index \in {Instance(FileIndex(d, None), "data") : d \in SeqUpTo(Entries, MaxLen)}
    /\ result = NoResult
    /\ indexFile = NoIndexFile
    /\ dataFile \in DataFiles \cup {NoDataFile}
    /\ written = NoSave
    /\ last = Call("init")

Next ==
    \/ \E dp \in BOOLEAN : Save(dp)
    \/ \E dp \in BOOLEAN, doe \in BOOLEAN : LoadNew(dp, doe)
    \/ \E d \in DataFiles \cup {NoDataFile} : SetData(d)
    \/ TouchIndex

Spec == Init /\ [][Next]_vars

\* Queries: an index built from an in-memory list, queried
InitQuery ==
    /\ raw_data = <<>>
    /\ index \in {Instance(FileIndex(d, None), "data") : d \in QLists}
    /\ result = NoResult
    /\ indexFile = NoIndexFile
    /\ dataFile = NoDataFile
    /\ written = NoSave
    /\ last = Call("init")

NextQuery ==
    \E start \in QBounds, stop \in QBounds, hint \in Hints : GetTimeRange(start, stop, hint)

SpecQuery == InitQuery /\ [][NextQuery]_vars

\* End to end: the builder is fed the scenario's messages, saves, the index
\* file is loaded back and queried
InitE2E ==
    /\ raw_data = <<>>
    /\ index = Instance(FileIndex(<<>>, None), "data")
    /\ result = NoResult
    /\ indexFile = NoIndexFile
    /\ dataFile \in ScenarioFiles
    /\ written = NoSave
    /\ last = Call("init")

AppendScenario ==
    /\ Len(raw_data) < Len(Scenario)
    /\ LET m == Scenario[Len(raw_data) + 1] IN append(m[2], m[3], m[1])

NextE2E ==
    \/ AppendScenario
    \/ \E dp \in BOOLEAN : BuilderSave(dp)
    \/ \E dp \in BOOLEAN, doe \in BOOLEAN : LoadNew(dp, doe)
    \/ \E start \in ScenarioBounds, stop \in ScenarioBounds, hint \in Hints :
          GetTimeRange(start, stop, hint)

SpecE2E == InitE2E /\ [][NextE2E]_vars

\* Indexing: an index built from an in-memory list, indexed with every kind of
\* key, queried by time range and iterated
InitItem ==
    /\ raw_data = <<>>
    /\ index \in {Instance(FileIndex(d, None), "data") : d \in ILists}
    /\ result = NoResult
    /\ indexFile = NoIndexFile
    /\ dataFile = NoDataFile
    /\ written = NoSave
    /\ last = Call("init")

NextItem ==
    \/ \E key \in Keys : GetItem(key)
    \/ \E start \in {None, 3}, stop \in {None, 4}, hint \in IHints :
          GetTimeRange(start, stop, hint)
    \/ Iterate

SpecItem == InitItem /\ [][NextItem]_vars

\* Builder: messages are appended in any order of time and offset, and the
\* index is produced or saved at any moment
BuilderTimes == {None, 2, 4}

BuilderTypes == {INVALID, 5}

BuilderOffsets == {0, 20}

InitBuilder ==
    /\ raw_data = <<>>
    /\ index = Instance(FileIndex(<<>>, None), "data")
    /\ result = NoResult
    /\ indexFile = NoIndexFile
    /\ dataFile \in {NoDataFile, DataFile(52, 8)}
    /\ written = NoSave
    /\ last = Call("init")

NextBuilder ==
    \/ \E mt \in BuilderTypes, o \in BuilderOffsets, t \in BuilderTimes : append(mt, o, t)
    \/ ToIndex
    \/ \E dp \in BOOLEAN : BuilderSave(dp)

SpecBuilder == InitBuilder /\ [][NextBuilder]_vars

\* Reload: load() is called on an instance that exists, next to an index file
\* written earlier, and the instance is queried
ReloadLists == SeqUpTo({FileIndexEntry(t, ty, 20) : t \in Times, ty \in Types}, MaxLen)

ReloadKeys == {Key("None"), [Key("MessageType") EXCEPT !.type = 5]}

InitReload ==
    /\ raw_data = <<>>
    /\ index \in {Instance(FileIndex(d, None), "data") : d \in ReloadLists}
    /\ result = NoResult
    /\ indexFile \in {NoIndexFile} \cup {IndexFile(to_raw(d)) : d \in ReloadLists}
    /\ dataFile \in {NoDataFile, DataFile(0, 0), DataFile(52, 8)}
    /\ written = NoSave
    /\ last = Call("init")

NextReload ==
    \/ \E dp \in BOOLEAN, doe \in BOOLEAN : Reload(dp, doe)
    \/ \E key \in ReloadKeys : GetItem(key)

SpecReload == InitReload /\ [][NextReload]_vars

\* Queries and saves on one instance, next to a data file of 52 bytes
FrameKeys ==
    {Key("None"), [Key("str") EXCEPT !.name = "time"], [Key("MessageType") EXCEPT !.type = 5],
     [Key("MessageTypes") EXCEPT !.types = <<5, INVALID>>], [Key("int") EXCEPT !.position = 0],
     [Key("time_slice") EXCEPT !.start = 21, !.step = "remove_nans", !.step_is_str = TRUE],
     [Key("TimeRange") EXCEPT !.start = 0], [Key("slice") EXCEPT !.lo = Given(1)],
     [Key("list") EXCEPT !.positions = <<0>>], Key("dict")}

InitFrame ==
    /\ raw_data = <<>>
    /\ index \in {Instance(FileIndex(d, None), "data") : d \in SeqUpTo(Entries, MaxLen)}
    /\ result = NoResult
    /\ indexFile = NoIndexFile
    /\ dataFile = DataFile(52, 8)
    /\ written = NoSave
    /\ last = Call("init")

NextFrame ==
    \/ \E dp \in BOOLEAN : Save(dp)
    \/ \E key \in FrameKeys : GetItem(key)
    \/ \E stop \in {None, 21}, hint \in Hints : GetTimeRange(None, stop, hint)
    \/ Iterate

SpecFrame == InitFrame /\ [][NextFrame]_vars

\* Codec: a one-entry index is saved and the index file loaded back, next to
\* a data file that the entry's offset agrees with
CodecTimes == {NaN} \cup 0..(2 * (2^TimeBits) - 1)

InitCodec ==
    /\ raw_data = <<>>
    /\ index \in {Instance(FileIndex(<<FileIndexEntry(t, 5, 20)>>, None), "data") : t \in CodecTimes}
    /\ result = NoResult
    /\ indexFile = NoIndexFile
    /\ dataFile = DataFile(52, 8)
    /\ written = NoSave
    /\ last = Call("init")

NextCodec ==
    \/ \E dp \in BOOLEAN : Save(dp)
    \/ \E dp \in BOOLEAN, doe \in BOOLEAN : LoadNew(dp, doe)

SpecCodec == InitCodec /\ [][NextCodec]_vars

-----------------------------------------------------------------------------
(* Properties: time range queries *)

\* the valid (non-NaN) times of data never decrease along the index
Ascending(data) ==
    \A i \in 1..Len(data), j \in 1..Len(data) :
        (i < j /\ ~isnan(data[i].time) /\ ~isnan(data[j].time)) => data[i].time <= data[j].time

\* the entries with floor(start) <= time < stop, an omitted bound being open
HalfOpenRange(data, start, stop) ==
    SelectSeq(data, LAMBDA e :
        /\ ~isnan(e.time)
        /\ (start # None => floor(start) <= e.time)
        /\ (stop # None => e.time < stop))

\* C1: on a non-empty index whose valid times ascend, get_time_range(start,
\* stop, 'remove_nans') returns exactly the entries with
\* floor(start) <= time < stop, an omitted bound being open-ended.
C1_HalfOpenRange ==
    (/\ last.op = "get_time_range"
     /\ last.hint = "remove_nans"
     /\ Len(index.data) > 0
     /\ Ascending(index.data))
    => (/\ result.status = "ok"
        /\ result.data = HalfOpenRange(index.data, last.start, last.stop))

\* what get_time_range(start, stop, 'include_nans') returns for the bounds of
\* the last call
IncludeNans == get_time_range(index, last.start, last.stop, "include_nans").data

\* C24: on a non-empty index, for every start and stop, 'remove_nans' returns
\* the 'include_nans' result without its NaN-time entries, and 'all_nans'
\* returns the entries of the 'include_nans' result together with every
\* NaN-time entry of the index, in source order.
C24_HintsRelateToIncludeNans ==
    (last.op = "get_time_range" /\ Len(index.data) > 0)
    => (/\ last.hint = "remove_nans"
           => (/\ result.status = "ok"
               /\ result.data = SelectSeq(IncludeNans, LAMBDA e : ~isnan(e.time)))
        /\ last.hint = "all_nans"
           => (/\ result.status = "ok"
               /\ result.data = SelectSeq(index.data,
                      LAMBDA e : isnan(e.time) \/ \E i \in 1..Len(IncludeNans) : IncludeNans[i] = e)))

\* a NaN-time entry outside the run comes back under 'all_nans'
C24_Witness ==
    /\ last.op = "get_time_range" /\ last.hint = "all_nans"
    /\ Len(index.data) = 3 /\ isnan(index.data[3].time)
    /\ IncludeNans = <<index.data[1]>>
    /\ result.data = <<index.data[1], index.data[3]>>

\* the position the boundary search finds for a bound: that of the first
\* entry whose time is at least the bound (0-based)
FirstAtLeast(data, bound) ==
    CHOOSE p \in 0..(Len(data) - 1) :
        /\ Geq(data[p + 1].time, bound)
        /\ \A q \in 0..(p - 1) : ~Geq(data[q + 1].time, bound)

Found(data, bound) == \E i \in 1..Len(data) : Geq(data[i].time, bound)

\* C25: with hint 'include_nans', or no hint, get_time_range returns one
\* contiguous run of positions of the index, which starts at the position
\* the boundary search finds for floor(start), or at 0 without start, and ends
\* before the one it finds for stop, or at the end without stop; so a NaN-time
\* entry is returned exactly when its position is inside the run.
C25_IncludeNansIsPositionalRun ==
    (/\ last.op = "get_time_range" /\ last.hint \in {"None", "include_nans"}
     /\ Len(index.data) > 0)
    => (/\ result.status = "ok"
        /\ \E s \in 0..Len(index.data), e \in 0..Len(index.data) :
            /\ result.data = SubSeq(index.data, s + 1, e)
            /\ last.start = None => s = 0
            /\ (last.start # None /\ Found(index.data, floor(last.start)))
               => s = FirstAtLeast(index.data, floor(last.start))
            /\ last.stop = None => e = Len(index.data)
            /\ (last.stop # None /\ Found(index.data, last.stop))
               => e = FirstAtLeast(index.data, last.stop))

\* a NaN-time entry inside the run is returned, one after it is not
C25_Witness ==
    /\ last.op = "get_time_range" /\ last.hint = "None"
    /\ Len(index.data) = 3
    /\ isnan(index.data[1].time) /\ isnan(index.data[3].time)
    /\ last.start = None /\ last.stop = 4
    /\ result.data = <<index.data[1]>>

ScenarioEntries ==
    [i \in 1..Len(Scenario) |->
        FileIndexEntry(IF Scenario[i][1] = None THEN NaN ELSE Scenario[i][1],
                       Scenario[i][2], Scenario[i][3])]

\* the index file on disk was written by saving the whole scenario next to a
\* data file of 52 bytes, which is still 52 bytes long
ScenarioSaved ==
    /\ raw_data = ScenarioEntries
    /\ written.valid /\ written.dp
    /\ written.data = ScenarioEntries
    /\ written.dfile.size = 52
    /\ dataFile = written.dfile

\* loading the saved scenario back gives 3 entries and t0 = 10.0
ScenarioReloads ==
    (/\ ScenarioSaved
     /\ last.op = "load" /\ last.file.exists)
    => (/\ last.status = "ok"
        /\ Len(index.data) = 3
        /\ index.t0 = 20)

\* get_time_range(10, 11, 'remove_nans') on the loaded scenario returns its
\* first two entries
ScenarioQuery ==
    (/\ ScenarioSaved
     /\ index.origin = "load" /\ Len(index.data) = 3
     /\ last.op = "get_time_range"
     /\ last.start = 20 /\ last.stop = 22 /\ last.hint = "remove_nans")
    => (/\ result.status = "ok"
        /\ result.data = SubSeq(index.data, 1, 2))

\* C2: the scenario's three appends, saved next to a 52-byte data file and
\* loaded back, give 3 entries and t0 = 10.0, and get_time_range(10, 11,
\* 'remove_nans') on the loaded index returns exactly its first two entries.
C2_EndToEnd == ScenarioReloads /\ ScenarioQuery

-----------------------------------------------------------------------------
(* Properties: save and load *)

TypeOffsets(data) == [i \in 1..Len(data) |-> <<data[i].type, data[i].offset>>]

\* this load read the file that save(index_path, data_path) wrote, and the data
\* file is as it was then
LoadAfterSave ==
    /\ last.op = "load" /\ last.file.exists
    /\ written.valid /\ written.dp
    /\ dataFile = written.dfile

\* C3 as stated: saving any non-empty index with a known data path and loading
\* it back against the unchanged data file succeeds and gives the same
\* (type, offset) entries in the same order.
C3_SaveLoadAnyIndex ==
    LoadAfterSave
    => (/\ last.status = "ok"
        /\ TypeOffsets(index.data) = TypeOffsets(written.data))

\* C3 amended: the same, for an index whose last entry is not of type INVALID
\* and a data file that is not empty.
C3_SaveLoadRoundTrip ==
    (/\ LoadAfterSave
     /\ written.data[Len(written.data)].type # INVALID
     /\ written.dfile.size > 0)
    => (/\ last.status = "ok"
        /\ Len(index.data) = Len(written.data)
        /\ TypeOffsets(index.data) = TypeOffsets(written.data))

C3_Witness ==
    /\ LoadAfterSave
    /\ written.data[Len(written.data)].type # INVALID
    /\ written.dfile.size > 0
    /\ Len(written.data) = 2
    /\ index.origin = "load"
    /\ Len(last.file.records) = 3

\* what the load just made read: the decoded records of the index file, its
\* last record, and a data file that exists and is not empty
Loaded == from_raw(last.file.records)

LastLoaded == Loaded[Len(Loaded)]

LoadOfRecords == last.op = "load" /\ last.file.exists /\ Len(last.file.records) > 0

DataNonEmpty == dataFile.exists /\ dataFile.size > 0

\* the save that wrote the index file appended the EOF marker
MarkerWritten ==
    written.valid /\ written.dp /\ written.data[Len(written.data)].type # INVALID

C5_NoMarkerValidation ==
    (LoadOfRecords /\ LastLoaded.type # INVALID /\ DataNonEmpty)
    => IF LastLoaded.offset > dataFile.size - HeaderSize
       THEN /\ last.status = "ValueError" /\ last.err = "past_end"
            /\ ~last.header_read
       ELSE /\ last.header_read
            /\ last.status = "ok"
               <=> LastLoaded.offset + HeaderSize + dataFile.payload = dataFile.size
            /\ last.status # "ok" => (last.status = "ValueError" /\ last.err = "size_mismatch")

C5_Witness ==
    /\ LoadOfRecords /\ LastLoaded.type # INVALID /\ DataNonEmpty
    /\ LastLoaded.offset > dataFile.size - HeaderSize
    /\ LastLoaded.offset <= dataFile.size
    /\ last.err = "past_end"

\* C6: a load in which the data file is 0 bytes long while the index file has
\* records, or the data file is non-empty while the index file has none, fails
\* with a consistency error, and with delete_on_error the index file no longer
\* exists afterwards.
C6_EmptinessMismatch ==
    (/\ last.op = "load" /\ last.file.exists /\ dataFile.exists
     /\ \/ dataFile.size = 0 /\ Len(last.file.records) >= 1
        \/ dataFile.size > 0 /\ Len(last.file.records) = 0)
    => (/\ last.status = "ValueError"
        /\ last.err = IF dataFile.size = 0 THEN "data_empty" ELSE "index_empty"
        /\ last.doe => ~indexFile.exists)

C6_Witness ==
    /\ last.op = "load" /\ last.file.exists /\ dataFile.exists
    /\ dataFile.size = 0 /\ Len(last.file.records) >= 1
    /\ last.doe /\ ~indexFile.exists

\* the load failed because index and data file are inconsistent
InconsistencyError ==
    /\ last.op = "load" /\ last.status = "ValueError"
    /\ last.err \in {"data_empty", "index_empty", "size_mismatch", "past_end"}

\* C7: with delete_on_error, every load failure caused by an index/data
\* inconsistency has deleted the index file by the time the error is raised.
C7_DeleteOnEveryInconsistency ==
    (InconsistencyError /\ last.doe) => ~indexFile.exists

\* C8: with delete_on_error false no load deletes or modifies the index file,
\* and no load modifies the data file under any setting.
C8_LoadFrame ==
    [][last'.op = "load"
       => (/\ dataFile' = dataFile
           /\ ~last'.doe => indexFile' = indexFile)]_vars

C8_Witness ==
    /\ InconsistencyError /\ ~last.doe
    /\ last.err \in {"data_empty", "past_end"}
    /\ indexFile.exists /\ indexFile = last.file

\* C9: when no data path is given and the inferred data file does not exist,
\* loading a non-empty index file succeeds without validation: a trailing
\* INVALID-typed record is stripped, any other index is returned whole.
C9_NoDataFile ==
    (LoadOfRecords /\ ~last.dp /\ ~dataFile.exists)
    => (/\ last.status = "ok"
        /\ ~last.header_read
        /\ indexFile = last.file
        /\ index.data = IF LastLoaded.type = INVALID
                        THEN SubSeq(Loaded, 1, Len(Loaded) - 1)
                        ELSE Loaded)

C9_Witness ==
    /\ LoadOfRecords /\ ~last.dp /\ ~dataFile.exists
    /\ LastLoaded.type = INVALID
    /\ Len(index.data) = Len(Loaded) - 1
    /\ Len(Loaded) >= 2

\* C10: loading an index path that does not exist fails with a missing-file
\* error, loading with an explicit data path that does not exist fails with an
\* error, and in both cases no file is created, deleted or modified, whatever
\* delete_on_error is.
C10_MissingFiles ==
    [][(/\ last'.op = "load"
        /\ \/ ~indexFile.exists
           \/ last'.dp /\ ~dataFile.exists)
       => (/\ last'.status = IF ~indexFile.exists THEN "FileNotFoundError" ELSE "ValueError"
           /\ ~indexFile.exists => last'.err = "index_not_found"
           /\ indexFile.exists => last'.err = "data_not_found"
           /\ indexFile' = indexFile
           /\ dataFile' = dataFile)]_vars

C10_Witness ==
    /\ last.op = "load" /\ last.doe /\ last.dp
    /\ last.file.exists /\ Len(last.file.records) > 0
    /\ ~dataFile.exists
    /\ last.status = "ValueError" /\ last.err = "data_not_found"
    /\ indexFile = last.file

-----------------------------------------------------------------------------
(* Properties: indexing *)

\* the last call was a filtering operation that returned a FileIndex
Filtered ==
    /\ last.op \in {"getitem", "get_time_range"}
    /\ result.status = "ok" /\ result.returns = "FileIndex"

\* r holds entries of src in the order src holds them; the entries of an index
\* in file order are told apart by their offsets
SourceOrder(r, src) ==
    /\ \A i \in 1..Len(r) : \E k \in 1..Len(src) : src[k] = r[i]
    /\ \A i \in 1..Len(r), j \in 1..Len(r) : i < j => r[i].offset < r[j].offset

StrictlyIncreasing(ps) ==
    /\ \A i \in 1..Len(ps) : ps[i] >= 0
    /\ \A i \in 1..Len(ps), j \in 1..Len(ps) : i < j => ps[i] < ps[j]

\* C11 as stated: every filtering operation (type, type set, time range under
\* every hint, positional integer, slice, list) returns the surviving entries
\* in the relative order they have in the source index.
C11_OrderPreserved == Filtered => SourceOrder(result.data, index.data)

\* C11 amended: the same for every filtering operation other than a
\* positional slice with a negative step and a positional list whose
\* positions are not strictly increasing non-negative numbers.
C11_OrderPreservedForward ==
    (/\ Filtered
     /\ last.key.kind = "slice" => SliceStep(last.key.stride) > 0
     /\ last.key.kind = "list" => StrictlyIncreasing(last.key.positions))
    => SourceOrder(result.data, index.data)

C11_Witness ==
    /\ Filtered
    /\ last.key.kind = "list" /\ last.key.positions = <<0, 2>>
    /\ Len(index.data) = 3
    /\ result.data = <<index.data[1], index.data[3]>>

C13_NoSharedBuffer == Filtered => result.base = "own"

\* C14: on an empty FileIndex every query (single type, type set, time range
\* with any bounds and any hint, integer position, position slice, position
\* list, TimeRange object) returns an empty FileIndex and raises nothing.
C14_EmptyIndexQueries ==
    (/\ Len(index.data) = 0
     /\ last.op \in {"getitem", "get_time_range"})
    => (/\ result.status = "ok"
        /\ result.returns = "FileIndex"
        /\ result.data = <<>>)

C14_Witness ==
    /\ Len(index.data) = 0
    /\ last.op = "getitem" /\ last.key.kind = "TimeRange"
    /\ ~last.key.absolute /\ last.key.start = 1 /\ last.key.p1_t0 = None
    /\ index.t0 = None
    /\ result.status = "ok" /\ result.data = <<>>

ControlHints == {"include_nans", "all_nans", "remove_nans"}

\* the shape of the last request is invalid: a key of an unsupported type, a
\* time slice whose step is neither None nor a string, or a hint, given to
\* get_time_range or as the step of a time slice, that is not a control hint
InvalidShape ==
    \/ last.op = "getitem" /\ last.key.kind = "dict"
    \/ /\ last.op = "getitem" /\ last.key.kind = "time_slice"
       /\ last.key.step # "None"
       /\ ~last.key.step_is_str \/ last.key.step \notin ControlHints
    \/ last.op = "get_time_range" /\ last.hint \notin ControlHints \cup {"None"}

\* C15 as stated: a query whose request shape is invalid fails with an
\* invalid-argument error on every FileIndex and never returns a result.
C15_InvalidShapeFails == InvalidShape => result.status = "ValueError"

\* C15 amended: a query whose request shape is invalid fails with an
\* invalid-argument error on every FileIndex that is not empty.
C15_InvalidShapeFailsNonEmpty ==
    (InvalidShape /\ Len(index.data) > 0) => result.status = "ValueError"

C15_Witness ==
    /\ InvalidShape /\ Len(index.data) = 2
    /\ last.op = "get_time_range" /\ last.hint = "every_nan"
    /\ last.start = 3 /\ last.stop = 4
    /\ result.status = "ValueError"

\* the entries of data whose type is one of types, in the order of data
OfTypes(data, types) == SelectSeq(data, LAMBDA e : e.type \in types)

Elements(seq) == {seq[i] : i \in 1..Len(seq)}

\* the last call indexed a non-empty index with a message type or payload class
ByType ==
    /\ last.op = "getitem" /\ Len(index.data) > 0
    /\ last.key.kind \in {"MessageType", "MessagePayload"}

\* ... with a non-empty collection of message types or payload classes
ByTypes ==
    /\ last.op = "getitem" /\ Len(index.data) > 0
    /\ last.key.kind \in {"MessageTypes", "MessagePayloads"}

\* C18: on a non-empty index, indexing with a message type T returns exactly
\* the entries of type T, indexing with a non-empty collection S of types
\* returns exactly the entries whose type is in S, and T gives what the
\* one-element collection {T} gives.
C18_TypeFilter ==
    /\ ByType => (/\ result.status = "ok"
                  /\ result.data = OfTypes(index.data, {last.key.type})
                  /\ result = getitem(index, [Key("MessageTypes") EXCEPT !.types = <<last.key.type>>]))
    /\ ByTypes => (/\ result.status = "ok"
                   /\ result.data = OfTypes(index.data, Elements(last.key.types)))

C18_Witness ==
    /\ ByTypes /\ last.key.types = <<7, 5>>
    /\ Len(index.data) = 3 /\ Len(result.data) = 2
    /\ index.data[2].type = 99

\* a bound of index[lo:hi] as a position of an index of n entries: a
\* negative bound counts from the end, and the bound is clamped to 0..n
Position(n, bound, omitted) ==
    IF bound = Omitted THEN omitted
    ELSE IF bound[1] < 0 THEN Max(bound[1] + n, 0)
    ELSE Min(bound[1], n)

\* C19: on a non-empty index of n entries, an integer position k with
\* 0 <= k < n returns the one entry k, a slice of integer positions returns
\* the contiguous range of entries from its first position up to and not
\* including its last, and a list of positions returns the entries at those
\* positions in the order of the list.
C19_PositionalIndexing ==
    LET n == Len(index.data)
        k == last.key
    IN (last.op = "getitem" /\ n > 0)
       => (/\ (k.kind = "int" /\ k.position \in 0..(n - 1))
              => (result.status = "ok" /\ result.data = <<index.data[k.position + 1]>>)
           /\ (k.kind = "slice" /\ k.stride = Omitted)
              => (/\ result.status = "ok"
                  /\ result.data = SubSeq(index.data, Position(n, k.lo, 0) + 1, Position(n, k.hi, n)))
           /\ (/\ k.kind = "list" /\ Len(k.positions) > 0
               /\ \A i \in 1..Len(k.positions) : k.positions[i] \in 0..(n - 1))
              => (/\ result.status = "ok"
                  /\ Len(result.data) = Len(k.positions)
                  /\ \A i \in 1..Len(k.positions) :
                        result.data[i] = index.data[k.positions[i] + 1]))

C19_Witness ==
    /\ last.op = "getitem" /\ Len(index.data) = 3
    /\ last.key.kind = "slice" /\ last.key.stride = Omitted
    /\ last.key.lo = Given(1) /\ last.key.hi = Given(2)
    /\ result.data = <<index.data[2]>>
    /\ index.data[2].time # index.data[3].time

\* the reference time of a relative TimeRange: its own, else the index's t0
Reference(key) == IF key.p1_t0 # None THEN key.p1_t0 ELSE index.t0

\* the bound of a TimeRange as the absolute time it stands for
Resolved(bound, key) ==
    IF bound = None THEN None
    ELSE IF key.absolute THEN bound
    ELSE Plus(bound, Reference(key))

\* the last call indexed with a TimeRange whose bounds resolve
ByTimeRange ==
    /\ last.op = "getitem" /\ last.key.kind = "TimeRange"
    /\ \/ last.key.absolute
       \/ Reference(last.key) # None
       \/ last.key.start = None /\ last.key.stop = None

-----------------------------------------------------------------------------
(* Properties: t0 and the record codec *)

\* the time of the first entry that has one, None when no entry has
FirstValidTime(data) ==
    IF \E i \in 1..Len(data) : ~isnan(data[i].time)
    THEN data[CHOOSE i \in 1..Len(data) :
                  ~isnan(data[i].time) /\ \A j \in 1..(i - 1) : isnan(data[j].time)].time
    ELSE None

\* C16: the t0 of a FileIndex built without an explicit t0, from an index
\* file or from a list of entries, is the time of its first entry with a valid
\* time, and None when it is empty or no entry has a valid time.
C16_T0FirstValidTime == index.t0 = FirstValidTime(index.data)

\* this load read the one record that the last save wrote for the one entry
\* of the index, and returned it
CodecRoundTrip ==
    /\ last.op = "load" /\ last.status = "ok" /\ last.file.exists
    /\ written.valid /\ Len(written.data) = 1
    /\ Len(index.data) = 1

IntegerValued(t) == ~isnan(t) /\ t % 2 = 0

Fractional(t) == ~isnan(t) /\ t % 2 = 1

\* decoded is what the codec promises for encoded
RoundTrips(encoded, decoded) ==
    /\ decoded.type = encoded.type
    /\ decoded.offset = encoded.offset
    /\ IntegerValued(encoded.time) => decoded.time = encoded.time
    /\ Fractional(encoded.time) => decoded.time = encoded.time - 1
    /\ isnan(decoded.time) <=> isnan(encoded.time)

\* C17 as stated: encoding an entry and decoding the record gives the same
\* (time, type, offset) for every integer-valued time the field can hold, the
\* floor of a fractional time, and a NaN time exactly when the time was NaN.
C17_CodecRoundTrip ==
    CodecRoundTrip => RoundTrips(written.data[1], index.data[1])

\* C17 amended: the same for a time that is NaN or below the field's largest
\* value, the sentinel of an invalid time.
C17_CodecRoundTripBelowSentinel ==
    (/\ CodecRoundTrip
     /\ isnan(written.data[1].time) \/ written.data[1].time < 2 * Timestamp_INVALID)
    => RoundTrips(written.data[1], index.data[1])

C17_Witness ==
    /\ CodecRoundTrip
    /\ written.data[1].time = 2 * Timestamp_INVALID - 1
    /\ index.data[1].time = 2 * Timestamp_INVALID - 2
    /\ Len(last.file.records) = 2

-----------------------------------------------------------------------------
(* Properties: FileIndexBuilder *)

\* the entry that the last append was called with
Appended ==
    FileIndexEntry(IF last.p1_time = None THEN NaN ELSE last.p1_time,
                   last.message_type, last.offset_bytes)

\* the last call returned a FileIndex made from the builder's list
Produced ==
    \/ last.op = "to_index"
    \/ last.op = "builder_save" /\ last.status = "ok"

\* C21: every append adds its (time, type, offset), an absent time as NaN, at
\* the end of the builder's list and nothing else changes the list, so after
\* n appends in any order len(builder) is n; and the FileIndex that to_index()
\* or save() returns holds exactly the list's entries in append order, with
\* no EOF marker added.
C21_BuilderKeepsAppends ==
    /\ [](Produced => (index.data = raw_data /\ Len(index.data) = builder_len))
    /\ [][IF last'.op = "append"
          THEN raw_data' = Append(raw_data, Appended') /\ builder_len' = builder_len + 1
          ELSE raw_data' = raw_data]_vars

\* out of time and offset order, saved with a marker in the file only
C21_Witness ==
    /\ last.op = "builder_save" /\ last.status = "ok" /\ last.dp
    /\ Len(index.data) = 3 /\ Len(indexFile.records) = 4
    /\ index.data[1].time = 4 /\ index.data[2].time = NaN /\ index.data[3].time = 2
    /\ index.data[1].offset = 20 /\ index.data[2].offset = 0

\* C22: appending to the builder leaves the length and the entries of the
\* FileIndex produced before by to_index() or save() unchanged.
C22_AppendKeepsProduced ==
    [][last'.op = "append" => (index'.data = index.data /\ index'.t0 = index.t0)]_vars

C22_Witness ==
    /\ last.op = "append"
    /\ Len(index.data) = 1 /\ Len(raw_data) = 3
    /\ index.data[1] = raw_data[1]

-----------------------------------------------------------------------------
(* Properties: save, reload and empty index files *)

\* the entries save(index_path, data_path) is to encode for an index holding
\* data: an EOF marker follows when data is not empty, its last entry is not
\* a marker already and data_path is given
ToBeSaved(data, dp, dfile) ==
    IF Len(data) > 0 /\ data[Len(data)].type # INVALID /\ dp
    THEN Append(data, FileIndexEntry(NaN, INVALID, dfile.size))
    ELSE data

\* C23: after save(index_path, data_path) has returned, for every FileIndex,
\* an empty one too, the file at index_path holds exactly the encoded records
\* of the index, with the EOF marker when one is due, and nothing of a file
\* that was there before.
C23_SaveWritesIndex ==
    (last.op = "save" /\ last.status = "ok")
    => indexFile = IndexFile(to_raw(ToBeSaved(index.data, last.dp, dataFile)))

\* C26: a load() called on an instance that exists leaves its entries and its
\* t0 as they were when it fails, and when it succeeds on entries of which
\* one has a valid time the instance's t0 is the time of the first of them.
C26_ReloadKeepsOrRederives ==
    [][(last'.op = "load" /\ ~last'.ctor)
       => IF last'.status # "ok"
          THEN index'.data = index.data /\ index'.t0 = index.t0
          ELSE (\E i \in 1..Len(index'.data) : ~isnan(index'.data[i].time))
               => index'.t0 = FirstValidTime(index'.data)]_vars

\* the last call was a save, with a data path, of a non-empty index
SavedWithDataPath ==
    /\ last.op = "save" /\ last.status = "ok" /\ last.dp
    /\ Len(index.data) > 0

\* records holds n entry records and then one EOF marker, the only one
EndsWithOneMarker(records, n) ==
    /\ Len(records) = n + 1
    /\ records[n + 1].type = INVALID
    /\ \A i \in 1..n : records[i].type # INVALID

NoMarker(data) == \A i \in 1..Len(data) : data[i].type # INVALID

\* C27 as stated: in save / load cycles of a non-empty index of N entries
\* against an unchanged data file, every save leaves N + 1 records in the
\* index file, the one marker last, and every load leaves N entries in
\* memory, the last of them not a marker.
C27_MarkersNeverAccumulate ==
    /\ SavedWithDataPath => EndsWithOneMarker(indexFile.records, Len(index.data))
    /\ LoadAfterSave
       => (/\ last.status = "ok"
           /\ Len(index.data) = Len(written.data)
           /\ index.data[Len(index.data)].type # INVALID)

\* C27 amended: the same for an index that holds no entry of type INVALID
\* and a data file that is not empty.
C27_MarkersNeverAccumulateTyped ==
    /\ (SavedWithDataPath /\ NoMarker(index.data))
       => EndsWithOneMarker(indexFile.records, Len(index.data))
    /\ (LoadAfterSave /\ NoMarker(written.data) /\ written.dfile.size > 0)
       => (/\ last.status = "ok"
           /\ Len(index.data) = Len(written.data)
           /\ index.data[Len(index.data)].type # INVALID)

\* the second save of a cycle: the index saved now was loaded from the file
\* of an earlier save
C27_Witness ==
    /\ SavedWithDataPath /\ NoMarker(index.data)
    /\ index.origin = "load" /\ Len(index.data) = 2
    /\ Len(indexFile.records) = 3
    /\ dataFile.size > 0

\* the last call loaded an index file of zero records with nothing to
\* contradict it: no data path and no data file, or a data file of 0 bytes
LoadOfNoRecords ==
    /\ last.op = "load" /\ last.file.exists /\ Len(last.file.records) = 0
    /\ \/ ~last.dp /\ ~dataFile.exists
       \/ dataFile.exists /\ dataFile.size = 0

\* C28: loading an index file of zero records succeeds with an empty
\* FileIndex when no data path is given and the inferred data file does not
\* exist, and when the data file exists and is 0 bytes long.
C28_EmptyIndexFileLoads ==
    LoadOfNoRecords => (last.status = "ok" /\ index.origin = "load" /\ index.data = <<>>)

\* C29: every FileIndex that a query on a non-empty index returns (by type,
\* type set, time range under every hint, position, TimeRange object) carries
\* the t0 of the index it was taken from, whatever entries it holds.
C29_ResultCarriesT0 ==
    (Filtered /\ Len(index.data) > 0) => result.t0 = index.t0

\* C30: on an index of n entries, index[k] for -n <= k <= -1 returns the one
\* entry n + k, as the slice from k does.
C30_NegativePosition ==
    LET n == Len(index.data)
        k == last.key.position
    IN (last.op = "getitem" /\ last.key.kind = "int" /\ k \in (-n)..(-1))
       => (result.status = "ok" /\ result.data = <<index.data[n + k + 1]>>)

====
